---- MODULE Spec2Model ----
(***************************************************************************)
(* Model of one deployed Base7683 settlement contract (open / openFor /    *)
(* resolve / resolveFor / fill), the ERC20 balances of its chain and the   *)
(* chain's clock.  Every external call is one action.  A call that reverts *)
(* leaves the storage as it found it; its outcome is recorded in `last`.   *)
(* Transactions execute one at a time: `last` holds the outcome of the     *)
(* transaction just executed until Return hands it back to the caller.     *)
(***************************************************************************)
EXTENDS Integers, Sequences, FiniteSets, TLC

\* ------------------------------------------------------------------ bounds

MaxTime == 2          \* block.timestamp ranges over 1..MaxTime
MaxDeadline == 2      \* fill deadlines range over 1..MaxDeadline
MaxNonce == 1         \* the senderNonce field of an order ranges over 0..MaxNonce
MaxOpens == 1         \* successful open/openFor calls per sender in one behaviour
MaxFills == 1         \* distinct order ids filled in one behaviour
NumTasks == 3         \* concurrent fill tasks of the solver
MaxStart == 1         \* a chain's next sequence number starts in 0..MaxStart
MaxArgValue == 2      \* every event argument ranges over 1..MaxArgValue

\* ------------------------------------------------------------ program constants

\* The domain the contract is constructed with.
_localDomain == 1

\* type(uint32).max, the open deadline of an onchain order; kept symbolic.
MaxUint32 == "type(uint32).max"

UNFILLED == "UNFILLED"
OPENED == "OPENED"
FILLED == "FILLED"
SETTLED == "SETTLED"
REFUNDED == "REFUNDED"
OrderStatus == {UNFILLED, OPENED, FILLED, SETTLED, REFUNDED}

\* Outcomes of a call: NoError, or the error the call reverted with.
NoError == "NoError"
InvalidOrderType == "InvalidOrderType"
DecodeError == "DecodeError"
InvalidOriginDomain == "InvalidOriginDomain"
InvalidSenderNonce == "InvalidSenderNonce"
NoCounterpart == "NoCounterpart"
InvalidOrderId == "InvalidOrderId"
OrderExpired == "OrderExpired"
InvalidOrderDomain == "InvalidOrderDomain"
InvalidOrderStatus == "InvalidOrderStatus"
TransferFailed == "TransferFailed"

ValidationErrors ==
    { InvalidOrderType, DecodeError, InvalidOriginDomain, InvalidSenderNonce,
      NoCounterpart, InvalidOrderId, OrderExpired, InvalidOrderDomain,
      InvalidOrderStatus }

\* ------------------------------------------------------------ the universe

Domains == {1, 2}                \* the local domain and one remote domain
Accounts == {"a1", "a2"}
This == "settler"                \* address(this)
Holders == Accounts \cup {This}
TokenIn == "tokIn"
TokenOut == "tokOut"
Tokens == {TokenIn, TokenOut}
AmountsIn == {2}
AmountsOut == {1}
Senders == {"a1"}                \* the sender field; the contract never reads it
Recipients == {"a2"}
Times == 1 .. MaxTime
Deadlines == 1 .. MaxDeadline
Nonces == 0 .. MaxNonce
ZeroBytes32 == "0x0"
ZeroAddress == "0x0"

\* ------------------------------------------------------------ OrderEncoder

OrderDataSet ==
    [ sender : Senders, recipient : Recipients,
      inputToken : {TokenIn}, outputToken : {TokenOut},
      amountIn : AmountsIn, amountOut : AmountsOut,
      senderNonce : Nonces,
      originDomain : Domains, destinationDomain : Domains,
      fillDeadline : Deadlines ]

orderDataType == "ORDER_DATA_TYPE"
OtherType == "OTHER_TYPE"

\* The canonical encoding: the fields in the fixed order of the wire schema.
encode(o) ==
    << o.sender, o.recipient, o.inputToken, o.outputToken, o.amountIn, o.amountOut,
       o.senderNonce, o.originDomain, o.destinationDomain, o.fillDeadline >>

Malformed == << "junk" >>

decodable(b) == Len(b) = 10

decode(b) ==
    [ sender |-> b[1], recipient |-> b[2], inputToken |-> b[3], outputToken |-> b[4],
      amountIn |-> b[5], amountOut |-> b[6], senderNonce |-> b[7],
      originDomain |-> b[8], destinationDomain |-> b[9], fillDeadline |-> b[10] ]

\* The digest of the canonical encoding; collision-free, so modelled as a tag
\* around the encoded bytes.
id(o) == << "keccak256", encode(o) >>

RawOrders == { encode(o) : o \in OrderDataSet }

\* ------------------------------------------------------------------ state

VARIABLES
    senderNonce,    \* mapping(address sender => uint256 nonce)
    orders,         \* mapping(bytes32 orderId => OrderData), the keys written
    orderFiller,    \* mapping(bytes32 orderId => address filler), the keys written
    orderStatus,    \* mapping(bytes32 orderId => OrderStatus), the keys written
    balances,       \* balances[t][h]: the ERC20 balances on this chain
    registry,       \* the domains with a counterpart enrolled
    now,            \* block.timestamp
    last,           \* the outcome of the transaction just executed
    opensFor        \* history: opensFor[a] counts the successful open/openFor calls for a

\* The off-chain solver: its configuration, the MultiProvider it builds, the
\* shared NonceKeeperWallet and the fill tasks that submit through it.
VARIABLES
    config,         \* [PRIVATE_KEY, MNEMONIC] as read from ../config.js
    gmp,            \* the outcome of getMultiProvider()
    created,        \* the objects getMultiProvider constructed, in order
    multiProvider,  \* the MultiProvider returned, with its shared signer
    nonceCache,     \* nonceCache[c]: the wallet's cached next sequence number
    chainNext,      \* chainNext[c]: the chain's authoritative next sequence number
    fetches,        \* fetches[c]: how often chainNext[c] was read
    lock,           \* lock[c]: the task holding the allocation of chain c
    tasks,          \* tasks[t]: a fill task's position, chain and number
    accepted,       \* accepted[c]: the numbers of the accepted submissions, in order
    lastDone        \* lastDone[c]: how the latest submission on c ended

\* The event listener: the raw event observed and the record made of it.
VARIABLES
    args,           \* the positional arguments of the event being handled
    intent          \* the record parseEventArgs returned for it

settlement == << senderNonce, orders, orderFiller, orderStatus, balances, registry, now,
                 last, opensFor >>
signer == << config, gmp, created, multiProvider, nonceCache, chainNext, fetches, lock,
             tasks, accepted, lastDone >>
listener == << args, intent >>
offchain == << signer, listener >>

vars == << settlement, offchain >>
storage == << senderNonce, orders, orderFiller, orderStatus, balances >>

\* A Solidity mapping reads its zero value at a key never written.
Get(m, k, zero) == IF k \in DOMAIN m THEN m[k] ELSE zero
Put(m, k, v) == [ x \in DOMAIN m \cup {k} |-> IF x = k THEN v ELSE m[x] ]
Empty == [ x \in {} |-> 0 ]

statusOf(k) == Get(orderStatus, k, UNFILLED)
fillerOf(k) == Get(orderFiller, k, ZeroAddress)

\* The storage of the contract and the token balances of its chain.
Storage ==
    [ senderNonce |-> senderNonce, orders |-> orders, orderFiller |-> orderFiller,
      orderStatus |-> orderStatus, balances |-> balances ]

SetStorage(s) ==
    /\ senderNonce' = s.senderNonce
    /\ orders' = s.orders
    /\ orderFiller' = s.orderFiller
    /\ orderStatus' = s.orderStatus
    /\ balances' = s.balances

NoCall ==
    [ op |-> "none", caller |-> ZeroAddress, sender |-> ZeroAddress,
      err |-> NoError, orderId |-> << >>, orderType |-> orderDataType,
      originData |-> << >>, fillDeadline |-> 0, resolvedOrder |-> << >>,
      event |-> "none" ]

InitialBalance(t, h) == IF h = "a1" THEN 3 ELSE 0

\* The counterparts enrolled: the remote domain, and possibly the local one.
Registries == { Domains \ {_localDomain}, Domains }

\* ------------------------------------------------ off-chain state, at rest

SolverChains == {"chainA", "chainB"}     \* the chains of chainMetadata
Tasks == 1 .. NumTasks
NoTask == 0

\* A value of ../config.js: undefined, or a string given by its characters.
Undefined == [ defined |-> FALSE, chars |-> << >> ]
Str(chars) == [ defined |-> TRUE, chars |-> chars ]

NoWallet == [ kind |-> "none", secret |-> << >>, path |-> "" ]
NoMultiProvider == [ chains |-> {}, signers |-> [ c \in SolverChains |-> NoWallet ] ]
IdleTask == [ pc |-> "idle", chain |-> "", nonce |-> 0 ]
NothingDone == [ kind |-> "none", nonce |-> 0 ]

SignerAtRest ==
    /\ gmp = "notCalled"
    /\ created = << >>
    /\ multiProvider = NoMultiProvider
    /\ nonceCache = [ c \in SolverChains |-> << >> ]
    /\ fetches = [ c \in SolverChains |-> 0 ]
    /\ lock = [ c \in SolverChains |-> NoTask ]
    /\ tasks = [ t \in Tasks |-> IdleTask ]
    /\ accepted = [ c \in SolverChains |-> << >> ]
    /\ lastDone = [ c \in SolverChains |-> NothingDone ]

ListenerAtRest ==
    /\ args = << >>
    /\ intent = << >>

SettlementDeployed ==
    /\ senderNonce = [ a \in Accounts |-> 0 ]
    /\ orders = Empty
    /\ orderFiller = Empty
    /\ orderStatus = Empty
    /\ balances = [ t \in Tokens |-> [ h \in Holders |-> InitialBalance(t, h) ] ]
    /\ now = 1
    /\ last = NoCall
    /\ opensFor = [ a \in Accounts |-> 0 ]

Init ==
    /\ config = [ PRIVATE_KEY |-> Undefined, MNEMONIC |-> Undefined ]
    /\ chainNext = [ c \in SolverChains |-> 0 ]
    /\ SignerAtRest
    /\ ListenerAtRest
    /\ opensFor = [ a \in Accounts |-> 0 ]
    /\ senderNonce = [ a \in Accounts |-> 0 ]
    /\ orders = Empty
    /\ orderFiller = Empty
    /\ orderStatus = Empty
    /\ balances = [ t \in Tokens |-> [ h \in Holders |-> InitialBalance(t, h) ] ]
    /\ registry \in Registries
    /\ now = 1
    /\ last = NoCall

\* ------------------------------------------------------- internal functions

CounterpartOf(_domain) == << "settler", _domain >>

\* Reverts unless a counterpart is enrolled for _domain; returns its address.
_mustHaveRemoteCounterpart(_domain) ==
    IF _domain \in registry
      THEN [ err |-> NoError, counterpart |-> CounterpartOf(_domain) ]
      ELSE [ err |-> NoCounterpart, counterpart |-> ZeroBytes32 ]

_getOrderId(orderData) == id(orderData)

Output(token, amount, recipient, chainId) ==
    [ token |-> token, amount |-> amount, recipient |-> recipient, chainId |-> chainId ]

FillInstruction(destinationChainId, destinationSettler, originData) ==
    [ destinationChainId |-> destinationChainId,
      destinationSettler |-> destinationSettler,
      originData |-> originData ]

Reverted(e) == [ err |-> e, resolvedOrder |-> << >>, orderData |-> << >> ]

\* Mutant: the decoded order keeps the deadline embedded in the raw bytes.
KeepEmbeddedDeadline(orderData, _fillDeadline) == orderData

\* The order data after "enforce fillDeadline into orderData".
EnforceFillDeadline(orderData, _fillDeadline) ==
    [orderData EXCEPT !.fillDeadline = _fillDeadline]

\* Mutant: a monotonic "at least" check instead of equality.
SenderNonceAtLeast(_sender, orderData) ==
    orderData.senderNonce >= senderNonce[_sender]

\* Mutant: a nonce below the counter also passes.
SenderNonceAtMost(_sender, orderData) ==
    orderData.senderNonce <= senderNonce[_sender]

\* The nonce guard of _resolvedOrder: TRUE when the call goes on.
SenderNonceOk(_sender, orderData) ==
    orderData.senderNonce = senderNonce[_sender]

\* Mutant: the input leg and the output leg change places.
BuildResolvedOrderSwapped(_sender, _orderData, _openDeadline, _fillDeadline, orderData, destinationSettler) ==
    [ user |-> _sender,
      originChainId |-> _localDomain,
      openDeadline |-> _openDeadline,
      fillDeadline |-> _fillDeadline,
      maxSpent |-> << Output(orderData.inputToken, orderData.amountIn,
                             ZeroBytes32, orderData.originDomain) >>,
      minReceived |-> << Output(orderData.outputToken, orderData.amountOut,
                                orderData.recipient, orderData.destinationDomain) >>,
      fillInstructions |-> << FillInstruction(orderData.destinationDomain,
                                              destinationSettler, _orderData) >> ]

BuildResolvedOrder(_sender, _orderData, _openDeadline, _fillDeadline, orderData, destinationSettler) ==
    [ user |-> _sender,
      originChainId |-> _localDomain,
      openDeadline |-> _openDeadline,
      fillDeadline |-> _fillDeadline,
      minReceived |-> << Output(orderData.inputToken, orderData.amountIn,
                                ZeroBytes32, orderData.originDomain) >>,
      maxSpent |-> << Output(orderData.outputToken, orderData.amountOut,
                             orderData.recipient, orderData.destinationDomain) >>,
      fillInstructions |-> << FillInstruction(orderData.destinationDomain,
                                              destinationSettler, _orderData) >> ]

_resolvedOrder(_orderType, _sender, _orderData, _openDeadline, _fillDeadline) ==
    IF _orderType # orderDataType THEN Reverted(InvalidOrderType)
    ELSE IF ~decodable(_orderData) THEN Reverted(DecodeError)
    ELSE
      LET decoded == decode(_orderData) IN
      IF decoded.originDomain # _localDomain THEN Reverted(InvalidOriginDomain)
      ELSE IF ~SenderNonceOk(_sender, decoded) THEN Reverted(InvalidSenderNonce)
      ELSE
        LET m == _mustHaveRemoteCounterpart(decoded.destinationDomain) IN
        IF m.err # NoError THEN Reverted(m.err)
        ELSE
          LET orderData == EnforceFillDeadline(decoded, _fillDeadline) IN
          [ err |-> NoError,
            resolvedOrder |-> BuildResolvedOrder(_sender, _orderData, _openDeadline,
                                                 _fillDeadline, orderData, m.counterpart),
            orderData |-> orderData ]

\* IERC20.safeTransferFrom on the balances bal: it reverts when the balance of
\* `from` does not cover the amount.
safeTransferFrom(bal, token, from, to, amount) ==
    IF bal[token][from] < amount
      THEN [ ok |-> FALSE, balances |-> bal ]
      ELSE LET debited == [bal EXCEPT ![token][from] = @ - amount]
           IN [ ok |-> TRUE,
                balances |-> [debited EXCEPT ![token][to] = @ + amount] ]

\* Mutant: the writes made before the failed transfer stay.
KeepWritten(pre, written) == written

\* A revert after storage writes: the transaction leaves the storage it found.
RevertTo(pre, written) == pre

\* ------------------------------------------------------------ bounding guards

FilledIds == { k \in DOMAIN orderStatus : orderStatus[k] = FILLED }
OpensLeft(_sender) == senderNonce[_sender] < MaxOpens
FillsLeft(_orderId) == Cardinality(FilledIds \ {_orderId}) < MaxFills

\* ------------------------------------------------------------ external calls

Result(err, s, orderId, resolvedOrder, event) ==
    [ err |-> err, storage |-> s, orderId |-> orderId,
      resolvedOrder |-> resolvedOrder, event |-> event ]

\* The three storage writes of open and openFor.
\* Mutant: the order is recorded and the counter stays.
OpenWritesKeepsCounter(pre, _sender, orderId, orderData) ==
    [pre EXCEPT !.orders = Put(@, orderId, orderData),
                !.orderStatus = Put(@, orderId, OPENED)]

OpenWrites(pre, _sender, orderId, orderData) ==
    [pre EXCEPT !.orders = Put(@, orderId, orderData),
                !.orderStatus = Put(@, orderId, OPENED),
                !.senderNonce = [@ EXCEPT ![_sender] = @ + 1]]

\* openFor(order, signature, originFillerData); neither msg.sender nor the
\* signature is read.
openForResult(order) ==
    LET pre == Storage
        r == _resolvedOrder(order.orderDataType, order.user, order.orderData,
                            order.openDeadline, order.fillDeadline)
    IN
    IF r.err # NoError THEN Result(r.err, pre, << >>, << >>, "none")
    ELSE LET orderId == _getOrderId(r.orderData)
             written == OpenWrites(pre, order.user, orderId, r.orderData)
         IN Result(NoError, written, orderId, r.resolvedOrder, "Open")

\* open(order), called by `caller` (msg.sender).
openResult(caller, order) ==
    LET pre == Storage
        r == _resolvedOrder(order.orderDataType, caller, order.orderData,
                            MaxUint32, order.fillDeadline)
    IN
    IF r.err # NoError THEN Result(r.err, pre, << >>, << >>, "none")
    ELSE LET orderId == _getOrderId(r.orderData)
             written == OpenWrites(pre, caller, orderId, r.orderData)
             t == safeTransferFrom(written.balances, r.orderData.inputToken,
                                   caller, This, r.orderData.amountIn)
         IN IF t.ok
              THEN Result(NoError, [written EXCEPT !.balances = t.balances],
                          orderId, r.resolvedOrder, "Open")
              ELSE Result(TransferFailed, RevertTo(pre, written), << >>, << >>, "none")

\* The checks of fill, in the order of the code; NoError when all pass.
IdNotChecked(_orderId, orderData) == TRUE          \* mutant: no id check
OrderIdMatches(_orderId, orderData) == _orderId = _getOrderId(orderData)
DeadlineRejects(orderData) == orderData.fillDeadline > now
StatusNotChecked(_orderId) == TRUE                 \* mutant: no status check
StatusAllowsFill(_orderId) == statusOf(_orderId) = UNFILLED

fillChecks(_orderId, _originData) ==
    IF ~decodable(_originData) THEN DecodeError
    ELSE
      LET orderData == decode(_originData) IN
      IF ~OrderIdMatches(_orderId, orderData) THEN InvalidOrderId
      ELSE IF DeadlineRejects(orderData) THEN OrderExpired
      ELSE IF orderData.destinationDomain # _localDomain THEN InvalidOrderDomain
      ELSE IF _mustHaveRemoteCounterpart(orderData.originDomain).err # NoError
        THEN NoCounterpart
      ELSE IF ~StatusAllowsFill(_orderId) THEN InvalidOrderStatus
      ELSE NoError

\* The three storage writes of fill.
FillWrites(pre, caller, _orderId, orderData) ==
    [pre EXCEPT !.orders = Put(@, _orderId, orderData),
                !.orderStatus = Put(@, _orderId, FILLED),
                !.orderFiller = Put(@, _orderId, caller)]

\* Mutant: the writes are made before the status check and survive its failure.
fillResultWritesFirst(caller, _orderId, _originData) ==
    LET pre == Storage
        e == fillChecks(_orderId, _originData)
    IN
    IF e = InvalidOrderStatus
      THEN Result(e, FillWrites(pre, caller, _orderId, decode(_originData)),
                  _orderId, << >>, "none")
    ELSE IF e # NoError THEN Result(e, pre, _orderId, << >>, "none")
    ELSE LET orderData == decode(_originData)
             written == FillWrites(pre, caller, _orderId, orderData)
             t == safeTransferFrom(written.balances, orderData.outputToken,
                                   caller, orderData.recipient, orderData.amountOut)
         IN IF t.ok
              THEN Result(NoError, [written EXCEPT !.balances = t.balances],
                          _orderId, << >>, "Filled")
              ELSE Result(TransferFailed, pre, _orderId, << >>, "none")

\* Mutant: the transfer's failure does not revert the transaction.
fillResultIgnoresTransfer(caller, _orderId, _originData) ==
    LET pre == Storage
        e == fillChecks(_orderId, _originData)
    IN
    IF e # NoError THEN Result(e, pre, _orderId, << >>, "none")
    ELSE LET orderData == decode(_originData)
             written == FillWrites(pre, caller, _orderId, orderData)
             t == safeTransferFrom(written.balances, orderData.outputToken,
                                   caller, orderData.recipient, orderData.amountOut)
         IN IF t.ok
              THEN Result(NoError, [written EXCEPT !.balances = t.balances],
                          _orderId, << >>, "Filled")
              ELSE Result(TransferFailed, written, _orderId, << >>, "Filled")

\* fill(_orderId, _originData, fillerData), called by `caller` (msg.sender).
fillResult(caller, _orderId, _originData) ==
    LET pre == Storage
        e == fillChecks(_orderId, _originData)
    IN
    IF e # NoError THEN Result(e, pre, _orderId, << >>, "none")
    ELSE LET orderData == decode(_originData)
             written == FillWrites(pre, caller, _orderId, orderData)
             t == safeTransferFrom(written.balances, orderData.outputToken,
                                   caller, orderData.recipient, orderData.amountOut)
         IN IF t.ok
              THEN Result(NoError, [written EXCEPT !.balances = t.balances],
                          _orderId, << >>, "Filled")
              ELSE Result(TransferFailed, RevertTo(pre, written), _orderId, << >>, "none")

Outcome(op, caller, sender, order, r) ==
    [ op |-> op, caller |-> caller, sender |-> sender, err |-> r.err,
      orderId |-> r.orderId, orderType |-> order.orderDataType,
      originData |-> order.orderData, fillDeadline |-> order.fillDeadline,
      resolvedOrder |-> r.resolvedOrder, event |-> r.event ]

openFor(order) ==
    LET r == openForResult(order) IN
    /\ last = NoCall
    /\ r.err = NoError => OpensLeft(order.user)
    /\ SetStorage(r.storage)
    /\ opensFor' = IF r.err = NoError THEN [opensFor EXCEPT ![order.user] = @ + 1]
                                      ELSE opensFor
    /\ last' = Outcome("openFor", ZeroAddress, order.user, order, r)

open(caller, order) ==
    LET r == openResult(caller, order) IN
    /\ last = NoCall
    /\ r.err = NoError => OpensLeft(caller)
    /\ SetStorage(r.storage)
    /\ opensFor' = IF r.err = NoError THEN [opensFor EXCEPT ![caller] = @ + 1]
                                      ELSE opensFor
    /\ last' = Outcome("open", caller, caller, order, r)

\* resolveFor(order, originFillerData): a view.
resolveFor(order) ==
    LET r == _resolvedOrder(order.orderDataType, order.user, order.orderData,
                            order.openDeadline, order.fillDeadline)
    IN /\ last = NoCall
       /\ UNCHANGED storage
       /\ last' = Outcome("resolveFor", ZeroAddress, order.user, order,
                          Result(r.err, Storage, << >>, r.resolvedOrder, "none"))

\* resolve(order): a view, resolved for msg.sender.
resolve(caller, order) ==
    LET r == _resolvedOrder(order.orderDataType, caller, order.orderData,
                            MaxUint32, order.fillDeadline)
    IN /\ last = NoCall
       /\ UNCHANGED storage
       /\ last' = Outcome("resolve", caller, caller, order,
                          Result(r.err, Storage, << >>, r.resolvedOrder, "none"))

fill(caller, _orderId, _originData) ==
    LET r == fillResult(caller, _orderId, _originData) IN
    /\ last = NoCall
    /\ r.err = NoError => FillsLeft(_orderId)
    /\ SetStorage(r.storage)
    /\ last' = Outcome("fill", caller, caller,
                       [ orderDataType |-> orderDataType, orderData |-> _originData,
                         fillDeadline |-> 0 ], r)

\* ------------------------------------------------------------ inputs

AnOrder == CHOOSE o \in OrderDataSet : TRUE

\* Onchain orders: every well-formed order with every fill deadline, one order
\* of another type and one whose bytes do not decode.
OnchainOrders ==
    [ fillDeadline : Deadlines, orderDataType : {orderDataType}, orderData : RawOrders ]
      \cup { [ fillDeadline |-> 1, orderDataType |-> OtherType, orderData |-> encode(AnOrder) ],
             [ fillDeadline |-> 1, orderDataType |-> orderDataType, orderData |-> Malformed ] }

OpenDeadline == MaxDeadline

GaslessOrders ==
    { [ user |-> u, openDeadline |-> OpenDeadline, fillDeadline |-> o.fillDeadline,
        orderDataType |-> o.orderDataType, orderData |-> o.orderData ] :
      u \in Accounts, o \in OnchainOrders }

\* What a filler may pass: origin data d with the id of d itself or with the id
\* of an order that differs from d in one field; or bytes that do not decode.
FillInputs ==
    { << id(o), encode(o) >> : o \in OrderDataSet }
      \cup { << id([o EXCEPT !.fillDeadline = x]), encode(o) >> :
               o \in OrderDataSet, x \in Deadlines }
      \cup { << id([o EXCEPT !.senderNonce = x]), encode(o) >> :
               o \in OrderDataSet, x \in Nonces }
      \cup { << id(AnOrder), Malformed >> }

\* ------------------------------------------------------------ specification

OpenFor == \E o \in GaslessOrders :
              openFor(o) /\ UNCHANGED << registry, now, offchain >>
Open == \E a \in Accounts, o \in OnchainOrders :
              open(a, o) /\ UNCHANGED << registry, now, offchain >>
ResolveFor == \E o \in GaslessOrders :
              resolveFor(o) /\ UNCHANGED << registry, now, opensFor, offchain >>
Resolve == \E a \in Accounts, o \in OnchainOrders :
              resolve(a, o) /\ UNCHANGED << registry, now, opensFor, offchain >>
Fill == \E a \in Accounts, i \in FillInputs :
              fill(a, i[1], i[2]) /\ UNCHANGED << registry, now, opensFor, offchain >>

\* The outcome of the transaction is handed back to its caller.
Return ==
    /\ last # NoCall
    /\ last' = NoCall
    /\ UNCHANGED << storage, registry, now, opensFor, offchain >>

\* A later block: block.timestamp advances.
Tick ==
    /\ last = NoCall
    /\ now < MaxTime
    /\ now' = now + 1
    /\ UNCHANGED << storage, registry, last, opensFor, offchain >>

Next == OpenFor \/ Open \/ ResolveFor \/ Resolve \/ Fill \/ Return \/ Tick

Spec == Init /\ [][Next]_vars

\* ------------------------------------------------------------ properties

statusIn(m, k) == Get(m, k, UNFILLED)

IsFill(l) == l.op = "fill"
IsOpen(l) == l.op \in {"open", "openFor"}
IsResolve(l) == l.op \in {"resolve", "resolveFor"}

\* C1: exactly-once fill.  A fill succeeds only on an order id whose status is
\* UNFILLED and leaves it FILLED; a status that has left UNFILLED never
\* returns to it; so at most one fill per order id succeeds.  A fill of an
\* order id whose status is FILLED fails and changes nothing, and it fails
\* with InvalidOrderStatus when it carries the origin data the order was
\* filled with.
C1_ExactlyOnceFill ==
    [][ /\ \A k \in DOMAIN orderStatus :
             orderStatus[k] # UNFILLED => statusIn(orderStatus', k) # UNFILLED
        /\ (IsFill(last') /\ last'.err = NoError) =>
             /\ statusOf(last'.orderId) = UNFILLED
             /\ statusIn(orderStatus', last'.orderId) = FILLED
        /\ (IsFill(last') /\ statusOf(last'.orderId) = FILLED) =>
             /\ last'.err # NoError
             /\ UNCHANGED storage
             /\ (/\ decodable(last'.originData)
                 /\ orders[last'.orderId] = decode(last'.originData))
                  => last'.err = InvalidOrderStatus
      ]_vars

C1_Witness ==
    /\ IsFill(last)
    /\ last.err = InvalidOrderStatus
    /\ statusOf(last.orderId) = FILLED
    /\ orders[last.orderId] = decode(last.originData)

\* C2: tamper detection.  A fill whose origin data decodes and whose order id
\* differs from the id recomputed from the origin data fails with
\* InvalidOrderId and changes nothing, in every state.
C2_TamperDetected ==
    [][ (/\ IsFill(last')
         /\ decodable(last'.originData)
         /\ last'.orderId # id(decode(last'.originData)))
          => (last'.err = InvalidOrderId /\ UNCHANGED storage)
      ]_vars

\* An order was filled, and a later fill passes its origin data with the id of
\* an order that differs in one field.
C2_Witness ==
    /\ IsFill(last)
    /\ last.err = InvalidOrderId
    /\ decodable(last.originData)
    /\ statusOf(id(decode(last.originData))) = FILLED

\* The preconditions of C3: order type, origin domain and destination
\* counterpart are valid in the call recorded in l.
ResolvableButForNonce(l) ==
    /\ l.orderType = orderDataType
    /\ decodable(l.originData)
    /\ decode(l.originData).originDomain = _localDomain
    /\ decode(l.originData).destinationDomain \in registry

\* The nonce of the order of call l equals the counter of its sender.
NonceEqualsCounter(l) ==
    decode(l.originData).senderNonce = senderNonce[l.sender]

\* The caller of call l holds the input amount of its order.
CallerCanPay(l) ==
    balances[decode(l.originData).inputToken][l.caller]
        >= decode(l.originData).amountIn

\* C3 as stated: with order type, origin domain and destination counterpart
\* valid, resolve, resolveFor, open and openFor succeed if and only if the
\* order's senderNonce equals the sender's counter, and fail with
\* InvalidSenderNonce otherwise.
C3_Original ==
    [][ ((IsResolve(last') \/ IsOpen(last')) /\ ResolvableButForNonce(last')) =>
          /\ (last'.err = NoError) <=> NonceEqualsCounter(last')
          /\ ~NonceEqualsCounter(last') => last'.err = InvalidSenderNonce
      ]_vars

\* C3 amended: with order type, origin domain and destination counterpart
\* valid, the call fails with InvalidSenderNonce if and only if the order's
\* senderNonce differs from the sender's counter; resolve, resolveFor and
\* openFor succeed if and only if they are equal, and open succeeds if and only
\* if they are equal and the caller's balance covers the input amount.
C3_NonceGate ==
    [][ ((IsResolve(last') \/ IsOpen(last')) /\ ResolvableButForNonce(last')) =>
          /\ (last'.err = InvalidSenderNonce) <=> ~NonceEqualsCounter(last')
          /\ last'.op # "open" =>
               ((last'.err = NoError) <=> NonceEqualsCounter(last'))
          /\ last'.op = "open" =>
               ((last'.err = NoError) <=>
                    (NonceEqualsCounter(last') /\ CallerCanPay(last')))
      ]_vars

\* A resolve with a nonce below the counter was rejected.
C3_Witness ==
    /\ IsResolve(last)
    /\ ResolvableButForNonce(last)
    /\ last.err = InvalidSenderNonce
    /\ decode(last.originData).senderNonce < senderNonce[last.sender]

\* C4: with the order id matching, fill fails with OrderExpired whenever the
\* chain time is at or past the fill deadline, and is not rejected as expired
\* while the deadline is in the future.
C4_FillDeadline ==
    (/\ IsFill(last)
     /\ decodable(last.originData)
     /\ last.orderId = id(decode(last.originData)))
      => ((last.err = OrderExpired) <=> (now >= decode(last.originData).fillDeadline))

\* C5: every change of a stored status is UNFILLED to OPENED, made by
\* open/openFor, or UNFILLED to FILLED, made by fill; open/openFor never write
\* OPENED over a status that is not UNFILLED.
C5_StatusTransitions ==
    [][ /\ \A k \in DOMAIN orderStatus' :
             statusIn(orderStatus', k) # statusOf(k) =>
               \/ statusOf(k) = UNFILLED /\ statusIn(orderStatus', k) = OPENED /\ IsOpen(last')
               \/ statusOf(k) = UNFILLED /\ statusIn(orderStatus', k) = FILLED /\ IsFill(last')
        /\ (IsOpen(last') /\ last'.err = NoError) =>
             statusOf(last'.orderId) = UNFILLED
      ]_vars

\* C6: the order id announced by a successful open/openFor equals the id the
\* destination recomputes from the origin data of the FillInstruction.
C6_CrossChainId ==
    (IsOpen(last) /\ last.err = NoError) =>
      last.orderId =
        _getOrderId(decode(last.resolvedOrder.fillInstructions[1].originData))

\* C7: an open or openFor that fails, in resolution or in the transfer of the
\* input amount, changes no mapping and no balance and emits no Open.
C7_OpenAtomic ==
    [][ (IsOpen(last') /\ last'.err # NoError) =>
          (UNCHANGED storage /\ last'.event = "none")
      ]_vars

\* An open passed resolution and failed in the transfer.
C7_Witness ==
    /\ last.op = "open"
    /\ last.err = TransferFailed

\* C8: a call that fails with a validation error changes no mapping and no
\* balance.
C8_NoMutationOnError ==
    [][ last'.err \in ValidationErrors => UNCHANGED storage ]_vars

\* A fill was rejected for its status while orders are recorded.
C8_Witness ==
    /\ IsFill(last)
    /\ last.err = InvalidOrderStatus
    /\ DOMAIN orders # {}

\* C9: a successful resolution yields exactly one minReceived (origin domain,
\* input token, amountIn), exactly one maxSpent (destination domain, output
\* token, amountOut, recipient) and exactly one FillInstruction (destination
\* domain, its enrolled counterpart, the raw order bytes unchanged).
C9_ResolvedShape ==
    ((IsResolve(last) \/ IsOpen(last)) /\ last.err = NoError) =>
      LET o == decode(last.originData)
          r == last.resolvedOrder
      IN /\ Len(r.minReceived) = 1
         /\ r.minReceived[1].chainId = o.originDomain
         /\ r.minReceived[1].chainId = _localDomain
         /\ r.minReceived[1].token = o.inputToken
         /\ r.minReceived[1].amount = o.amountIn
         /\ Len(r.maxSpent) = 1
         /\ r.maxSpent[1].chainId = o.destinationDomain
         /\ r.maxSpent[1].token = o.outputToken
         /\ r.maxSpent[1].amount = o.amountOut
         /\ r.maxSpent[1].recipient = o.recipient
         /\ Len(r.fillInstructions) = 1
         /\ r.fillInstructions[1].destinationChainId = o.destinationDomain
         /\ r.fillInstructions[1].destinationSettler = CounterpartOf(o.destinationDomain)
         /\ r.fillInstructions[1].originData = last.originData

\* An order from the local domain to the remote domain was resolved.
C9_Witness ==
    /\ IsResolve(last)
    /\ last.err = NoError
    /\ decode(last.originData).destinationDomain # _localDomain

\* C10: after a successful open/openFor the order stored under the order id,
\* and the ResolvedOrder, carry the fill deadline the caller supplied.
C10_DeadlineOverride ==
    (IsOpen(last) /\ last.err = NoError) =>
      /\ orders[last.orderId].fillDeadline = last.fillDeadline
      /\ last.resolvedOrder.fillDeadline = last.fillDeadline

\* An order was opened with a deadline other than the one in its bytes.
C10_Witness ==
    /\ IsOpen(last)
    /\ last.err = NoError
    /\ decode(last.originData).fillDeadline # last.fillDeadline

\* The order of call l carries a nonce the counter of its sender has passed.
StaleNonce(l) ==
    /\ decodable(l.originData)
    /\ decode(l.originData).senderNonce < senderNonce[l.sender]

\* C11: stale orders are irresolvable for good.  No counter ever decreases; a
\* resolve, resolveFor, open or openFor whose order carries a nonce below the
\* sender's counter never succeeds and changes nothing, and fails with
\* InvalidSenderNonce once order type and origin domain are valid; a
\* successful open leaves the counter above the nonce it consumed, so the same
\* raw order is not opened twice by the same sender.
C11_StaleIrresolvable ==
    [][ /\ \A a \in Accounts : senderNonce'[a] >= senderNonce[a]
        /\ ((IsResolve(last') \/ IsOpen(last')) /\ StaleNonce(last')) =>
             /\ last'.err # NoError
             /\ UNCHANGED storage
             /\ (/\ last'.orderType = orderDataType
                 /\ decode(last'.originData).originDomain = _localDomain)
                  => last'.err = InvalidSenderNonce
        /\ (IsOpen(last') /\ last'.err = NoError) =>
             /\ decode(last'.originData).senderNonce = senderNonce[last'.sender]
             /\ decode(last'.originData).senderNonce < senderNonce'[last'.sender]
      ]_vars

\* The raw order recorded as OPENED was submitted again by its sender and was
\* rejected for its nonce.
C11_Witness ==
    /\ IsOpen(last)
    /\ last.err = InvalidSenderNonce
    /\ StaleNonce(last)
    /\ \E k \in DOMAIN orders :
         /\ statusOf(k) = OPENED
         /\ orders[k] = EnforceFillDeadline(decode(last.originData), last.fillDeadline)

\* The balances after `amount` of `token` went from `from` to `to`.
Moved(bal, token, from, to, amount) ==
    IF from = to THEN bal
    ELSE [bal EXCEPT ![token][from] = @ - amount, ![token][to] = @ + amount]

\* C16: a fill that passes validation and whose transfer completes leaves the
\* order recorded, the status FILLED, the caller as filler, the Filled event
\* and amountOut moved from the filler to the recipient; a fill whose transfer
\* fails leaves the storage as it was, with status UNFILLED, no filler, no
\* recorded order and no Filled event for that id, and the same fill still
\* passes every check.
C16_FillAllOrNothing ==
    [][ /\ (IsFill(last') /\ last'.err = NoError) =>
             LET o == decode(last'.originData) IN
             /\ fillChecks(last'.orderId, last'.originData) = NoError
             /\ orders'[last'.orderId] = o
             /\ statusIn(orderStatus', last'.orderId) = FILLED
             /\ orderFiller'[last'.orderId] = last'.caller
             /\ last'.event = "Filled"
             /\ balances' = Moved(balances, o.outputToken, last'.caller,
                                  o.recipient, o.amountOut)
        /\ (IsFill(last') /\ last'.err = TransferFailed) =>
             /\ UNCHANGED storage
             /\ statusIn(orderStatus', last'.orderId) = UNFILLED
             /\ last'.orderId \notin DOMAIN orderFiller'
             /\ last'.orderId \notin DOMAIN orders'
             /\ last'.event = "none"
             /\ fillChecks(last'.orderId, last'.originData) = NoError
      ]_vars

\* A fill passed every check and failed in the transfer.
C16_Witness ==
    /\ IsFill(last)
    /\ last.err = TransferFailed
    /\ fillChecks(last.orderId, last.originData) = NoError
    /\ statusOf(last.orderId) = UNFILLED

\* C17: the account whose counter a successful open or openFor compared and
\* incremented is the account named in the sender field of the order.
C17_SenderBinding ==
    (IsOpen(last) /\ last.err = NoError) =>
      decode(last.originData).sender = last.sender

\* The ids any of the three order mappings knows.
KnownIds == DOMAIN orders \cup DOMAIN orderStatus \cup DOMAIN orderFiller

\* C18: for every order id a filler is recorded exactly when the status is
\* FILLED, an order is stored exactly when the status is not UNFILLED, and the
\* id recomputed from a stored order is the key it is stored under.
C18_RecordConsistency ==
    \A k \in KnownIds :
      /\ (k \in DOMAIN orderFiller) <=> (statusOf(k) = FILLED)
      /\ (k \in DOMAIN orders) <=> (statusOf(k) # UNFILLED)
      /\ k \in DOMAIN orders => _getOrderId(orders[k]) = k

\* C19: every counter equals the number of successful open/openFor calls made
\* for its account; a successful open/openFor raises the counter of its
\* sender by one and no other counter; every other step, resolve, resolveFor,
\* fill and every failed call included, leaves all counters unchanged.
C19_CounterCountsOpens ==
    /\ [](senderNonce = opensFor)
    /\ [][ IF IsOpen(last') /\ last'.err = NoError
             THEN /\ senderNonce'[last'.sender] = senderNonce[last'.sender] + 1
                  /\ \A a \in Accounts \ {last'.sender} :
                       senderNonce'[a] = senderNonce[a]
             ELSE UNCHANGED senderNonce
         ]_vars

\* Both accounts have opened an order, and a resolve follows.
C19_Witness ==
    /\ \A a \in Accounts : senderNonce[a] = 1 /\ opensFor[a] = 1
    /\ IsResolve(last)

\* The ids of the OPENED orders whose input token is t.
OpenedOrders(t) ==
    { k \in DOMAIN orders : statusOf(k) = OPENED /\ orders[k].inputToken = t }

RECURSIVE SumAmountIn(_)
SumAmountIn(ids) ==
    IF ids = {} THEN 0
    ELSE LET k == CHOOSE x \in ids : TRUE
         IN orders[k].amountIn + SumAmountIn(ids \ {k})

\* C20: a successful open moves amountIn of the input token from the caller to
\* the settlement contract, a successful fill moves amountOut of the output
\* token from the filler to the recipient, no other step moves tokens, and the
\* settlement contract always holds at least the sum of amountIn over the
\* OPENED orders of each token.
C20_ValueMovement ==
    /\ [](\A t \in Tokens : balances[t][This] >= SumAmountIn(OpenedOrders(t)))
    /\ [][ IF last'.op = "open" /\ last'.err = NoError
             THEN LET o == decode(last'.originData)
                  IN balances' = Moved(balances, o.inputToken, last'.caller,
                                       This, o.amountIn)
           ELSE IF IsFill(last') /\ last'.err = NoError
             THEN LET o == decode(last'.originData)
                  IN /\ balances' = Moved(balances, o.outputToken, last'.caller,
                                          o.recipient, o.amountOut)
                     /\ \A t \in Tokens : balances'[t][This] = balances[t][This]
           ELSE UNCHANGED balances
         ]_vars

\* ------------------------------------------------ the solver's shared signer

\* if (!v): undefined and the empty string are falsy.
Truthy(v) == v.defined /\ v.chars # << >>

\* ensure0x: the "0x" prefix is added to a string that does not start with it.
ensure0x(chars) ==
    IF Len(chars) >= 2 /\ chars[1] = "0" /\ chars[2] = "x"
      THEN chars
      ELSE << "0", "x" >> \o chars

\* new NonceKeeperWallet(privateKey)
NonceKeeperWallet(privateKey) ==
    [ kind |-> "privateKey", secret |-> privateKey, path |-> "" ]

\* The standard derivation path of account 0.
DefaultPath == "m/44'/60'/0'/0/0"

\* NonceKeeperWallet.fromMnemonic(mnemonic)
fromMnemonic(mnemonic) ==
    [ kind |-> "mnemonic", secret |-> mnemonic, path |-> DefaultPath ]

\* multiProvider.setSharedSigner(wallet): the signer of every chain.
setSharedSigner(mp, wallet) ==
    [mp EXCEPT !.signers = [ c \in SolverChains |-> wallet ]]

ConfigurationError == "Either a private key or mnemonic must be provided"

\* Mutant: the MultiProvider is constructed before the credentials are looked at.
getMultiProviderChecksLate(cfg) ==
    IF ~Truthy(cfg.PRIVATE_KEY) /\ ~Truthy(cfg.MNEMONIC)
      THEN [ result |-> ConfigurationError, created |-> << "MultiProvider" >>,
             multiProvider |-> NoMultiProvider ]
      ELSE LET mp == [ chains |-> SolverChains,
                       signers |-> [ c \in SolverChains |-> NoWallet ] ]
               wallet == IF Truthy(cfg.PRIVATE_KEY)
                           THEN NonceKeeperWallet(ensure0x(cfg.PRIVATE_KEY.chars))
                           ELSE fromMnemonic(cfg.MNEMONIC.chars)
           IN [ result |-> "ok",
                created |-> << "MultiProvider", "NonceKeeperWallet" >>,
                multiProvider |-> setSharedSigner(mp, wallet) ]

\* getMultiProvider() under the configuration cfg.
getMultiProvider(cfg) ==
    IF ~Truthy(cfg.PRIVATE_KEY) /\ ~Truthy(cfg.MNEMONIC)
      THEN [ result |-> ConfigurationError, created |-> << >>,
             multiProvider |-> NoMultiProvider ]
      ELSE LET mp == [ chains |-> SolverChains,
                       signers |-> [ c \in SolverChains |-> NoWallet ] ]
               wallet == IF Truthy(cfg.PRIVATE_KEY)
                           THEN NonceKeeperWallet(ensure0x(cfg.PRIVATE_KEY.chars))
                           ELSE fromMnemonic(cfg.MNEMONIC.chars)
           IN [ result |-> "ok",
                created |-> << "MultiProvider", "NonceKeeperWallet" >>,
                multiProvider |-> setSharedSigner(mp, wallet) ]

\* Startup: the solver builds its MultiProvider once.
GetMultiProvider ==
    /\ gmp = "notCalled"
    /\ LET r == getMultiProvider(config) IN
       /\ gmp' = r.result
       /\ created' = r.created
       /\ multiProvider' = r.multiProvider
    /\ UNCHANGED << config, nonceCache, chainNext, fetches, lock, tasks, accepted,
                    lastDone >>

\* Ledger.getNextSequence(account) on chain c.
getNextSequence(c) == chainNext[c]

\* Mutant: allocations on one chain are not serialised.
AlwaysAvailable(c) == TRUE

\* The allocation of chain c is held by no task.
Available(c) == lock[c] = NoTask

\* Mutant: the number of a failed submission is skipped.
CacheSkipsFailed(n) == << n + 1 >>

\* The cache after the submission holding n failed before acceptance.
CacheAfterFailure(n) == << n >>

\* The cache after the submission holding n was accepted for broadcast.
CacheAfterAcceptance(n) == << n + 1 >>

\* A fill decision: task t is to submit a transaction on chain c.
Request(t, c) ==
    /\ gmp = "ok"
    /\ tasks[t].pc = "idle"
    /\ tasks' = [tasks EXCEPT ![t] = [ pc |-> "waiting", chain |-> c, nonce |-> 0 ]]
    /\ UNCHANGED << config, gmp, created, multiProvider, nonceCache, chainNext, fetches,
                    lock, accepted, lastDone >>

\* Task t is served its sequence number: from the cache, which is filled from
\* the chain on the first request.
Allocate(t) ==
    LET c == tasks[t].chain
        cached == nonceCache[c] # << >>
        n == IF cached THEN nonceCache[c][1] ELSE getNextSequence(c)
    IN
    /\ tasks[t].pc = "waiting"
    /\ Available(c)
    /\ lock' = [lock EXCEPT ![c] = t]
    /\ nonceCache' = [nonceCache EXCEPT ![c] = << n >>]
    /\ fetches' = IF cached THEN fetches ELSE [fetches EXCEPT ![c] = @ + 1]
    /\ tasks' = [tasks EXCEPT ![t] = [@ EXCEPT !.pc = "submitting", !.nonce = n]]
    /\ UNCHANGED << config, gmp, created, multiProvider, chainNext, accepted, lastDone >>

\* The submission of task t is accepted for broadcast.
Accept(t) ==
    LET c == tasks[t].chain
        n == tasks[t].nonce
    IN
    /\ tasks[t].pc = "submitting"
    /\ accepted' = [accepted EXCEPT ![c] = Append(@, n)]
    /\ nonceCache' = [nonceCache EXCEPT ![c] = CacheAfterAcceptance(n)]
    /\ lock' = [lock EXCEPT ![c] = NoTask]
    /\ lastDone' = [lastDone EXCEPT ![c] = [ kind |-> "accepted", nonce |-> n ]]
    /\ tasks' = [tasks EXCEPT ![t] = [@ EXCEPT !.pc = "accepted"]]
    /\ UNCHANGED << config, gmp, created, multiProvider, chainNext, fetches >>

\* The submission of task t fails before acceptance.
Fail(t) ==
    LET c == tasks[t].chain
        n == tasks[t].nonce
    IN
    /\ tasks[t].pc = "submitting"
    /\ nonceCache' = [nonceCache EXCEPT ![c] = CacheAfterFailure(n)]
    /\ lock' = [lock EXCEPT ![c] = NoTask]
    /\ lastDone' = [lastDone EXCEPT ![c] = [ kind |-> "failed", nonce |-> n ]]
    /\ tasks' = [tasks EXCEPT ![t] = [@ EXCEPT !.pc = "failed"]]
    /\ UNCHANGED << config, gmp, created, multiProvider, chainNext, fetches, accepted >>

\* The values ../config.js may export.
PrivateKeys == { Undefined, Str(<< >>), Str(<< "a", "b" >>), Str(<< "0", "x", "a", "b" >>) }
Mnemonics == { Undefined, Str(<< >>), Str(<< "w", "o", "r", "d" >>) }

InitSigner ==
    /\ config \in [ PRIVATE_KEY : PrivateKeys, MNEMONIC : Mnemonics ]
    /\ chainNext \in [ SolverChains -> 0 .. MaxStart ]
    /\ SignerAtRest
    /\ ListenerAtRest
    /\ SettlementDeployed
    /\ registry = Domains

Startup == GetMultiProvider /\ UNCHANGED << settlement, listener >>
Requests == \E t \in Tasks, c \in SolverChains :
              Request(t, c) /\ UNCHANGED << settlement, listener >>
Allocations == \E t \in Tasks : Allocate(t) /\ UNCHANGED << settlement, listener >>
Acceptances == \E t \in Tasks : Accept(t) /\ UNCHANGED << settlement, listener >>
Failures == \E t \in Tasks : Fail(t) /\ UNCHANGED << settlement, listener >>

NextSigner == Startup \/ Requests \/ Allocations \/ Acceptances \/ Failures

SpecSigner == InitSigner /\ [][NextSigner]_vars

\* ------------------------------------------------ properties of the signer

\* The tasks that hold or have used a number of chain c, failures aside.
Served(c) ==
    { t \in Tasks : tasks[t].chain = c /\ tasks[t].pc \in {"submitting", "accepted"} }

\* No task of chain c takes part in the step.
NoStepOn(c) ==
    \A t \in Tasks : (tasks[t].chain = c \/ tasks'[t].chain = c) => tasks'[t] = tasks[t]

\* C12: on every chain the authoritative value k is fetched at most once, and
\* exactly once when a number was served; the tasks served a number, in any
\* interleaving, hold pairwise different numbers that are exactly k .. k+N-1;
\* the accepted submissions carry k, k+1, ... in this order; at most one task
\* holds the allocation; and a step of one chain's task leaves the cache, the
\* fetch count, the allocation and the submissions of every other chain alone.
C12_NonceSequencing ==
    /\ [](\A c \in SolverChains :
           LET k == getNextSequence(c)
               N == Cardinality(Served(c))
           IN /\ fetches[c] <= 1
              /\ (fetches[c] = 1) <=> (nonceCache[c] # << >>)
              /\ Served(c) # {} => fetches[c] = 1
              /\ { tasks[t].nonce : t \in Served(c) } = k .. (k + N - 1)
              /\ Cardinality({ tasks[t].nonce : t \in Served(c) }) = N
              /\ \A i \in 1 .. Len(accepted[c]) : accepted[c][i] = k + i - 1
              /\ Cardinality({ t \in Tasks : tasks[t].chain = c
                                              /\ tasks[t].pc = "submitting" }) <= 1)
    /\ [][ \A c \in SolverChains :
             NoStepOn(c) =>
               /\ nonceCache'[c] = nonceCache[c]
               /\ fetches'[c] = fetches[c]
               /\ lock'[c] = lock[c]
               /\ accepted'[c] = accepted[c]
         ]_vars

\* Two numbers were served on one chain, the first accepted and the second
\* being submitted, while a task of the other chain holds its own number.
C12_Witness ==
    \E c \in SolverChains, d \in SolverChains :
      /\ c # d
      /\ Len(accepted[c]) = 1
      /\ \E t \in Tasks : /\ tasks[t].chain = c
                          /\ tasks[t].pc = "submitting"
                          /\ tasks[t].nonce = getNextSequence(c) + 1
      /\ \E t \in Tasks : tasks[t].chain = d /\ tasks[t].pc = "submitting"

\* C13: a submission that fails before acceptance leaves the cache at its
\* number, and the next allocation on that chain is served the same number; an
\* accepted submission advances the cache by exactly one; a cached value is
\* never removed and never decreases.
C13_ReleaseNoRollback ==
    [][ /\ \A t \in Tasks :
             LET c == tasks[t].chain
                 n == tasks[t].nonce
             IN /\ (tasks[t].pc = "submitting" /\ tasks'[t].pc = "failed") =>
                     /\ nonceCache[c] = << n >>
                     /\ nonceCache'[c] = << n >>
                /\ (tasks[t].pc = "submitting" /\ tasks'[t].pc = "accepted") =>
                     /\ nonceCache[c] = << n >>
                     /\ nonceCache'[c] = << n + 1 >>
                /\ (/\ tasks[t].pc = "waiting"
                    /\ tasks'[t].pc = "submitting"
                    /\ lastDone[c].kind = "failed")
                     => tasks'[t].nonce = lastDone[c].nonce
                /\ (/\ tasks[t].pc = "waiting"
                    /\ tasks'[t].pc = "submitting"
                    /\ lastDone[c].kind = "accepted")
                     => tasks'[t].nonce = lastDone[c].nonce + 1
        /\ \A c \in SolverChains :
             nonceCache[c] # << >> =>
               /\ nonceCache'[c] # << >>
               /\ nonceCache'[c][1] >= nonceCache[c][1]
      ]_vars

\* A submission failed after another was accepted, and the next task is served
\* the number of the failed one.
C13_Witness ==
    \E c \in SolverChains, t \in Tasks, u \in Tasks :
      /\ tasks[t].chain = c /\ tasks[t].pc = "failed"
      /\ tasks[u].chain = c /\ tasks[u].pc = "submitting"
      /\ tasks[u].nonce = tasks[t].nonce
      /\ Len(accepted[c]) = 1
      /\ lastDone[c].kind = "failed"

\* The credentials config.js supplies.
Supplied == { k \in {"PRIVATE_KEY", "MNEMONIC"} : Truthy(config[k]) }

\* What holds of getMultiProvider with neither credential, and of the wallet it
\* installs otherwise.
FailsBeforeAnything ==
    /\ gmp = ConfigurationError
    /\ created = << >>
    /\ multiProvider = NoMultiProvider
    /\ \A c \in SolverChains : fetches[c] = 0 /\ accepted[c] = << >>
    /\ \A t \in Tasks : tasks[t].pc = "idle"

OneSharedWallet ==
    /\ created = << "MultiProvider", "NonceKeeperWallet" >>
    /\ multiProvider.chains = SolverChains
    /\ \A c \in SolverChains, d \in SolverChains :
         multiProvider.signers[c] = multiProvider.signers[d]
    /\ \A c \in SolverChains :
         multiProvider.signers[c] =
           IF "PRIVATE_KEY" \in Supplied
             THEN NonceKeeperWallet(ensure0x(config.PRIVATE_KEY.chars))
             ELSE fromMnemonic(config.MNEMONIC.chars)

\* C14 as stated: getMultiProvider succeeds only when exactly one of private
\* key and mnemonic is supplied; with neither it fails with the configuration
\* error before anything is created; when it succeeds exactly one wallet, built
\* from the supplied credential, is the shared signer of all chains.
C14_Original ==
    gmp # "notCalled" =>
      /\ (gmp = "ok") <=> (Cardinality(Supplied) = 1)
      /\ Supplied = {} => FailsBeforeAnything
      /\ gmp = "ok" => OneSharedWallet

\* C14 amended: getMultiProvider succeeds exactly when at least one of private
\* key and mnemonic is supplied (non-empty); with neither it fails with the
\* configuration error before any provider or wallet is created and before any
\* chain interaction; when it succeeds exactly one wallet is the shared signer
\* of all chains, built from the 0x-prefixed private key when one is supplied,
\* both being supplied included, and from the mnemonic on the standard path
\* otherwise.
C14_SignerConstruction ==
    gmp # "notCalled" =>
      /\ (gmp = "ok") <=> (Supplied # {})
      /\ Supplied = {} => FailsBeforeAnything
      /\ gmp = "ok" => OneSharedWallet
      /\ (gmp = "ok" /\ "PRIVATE_KEY" \in Supplied) =>
           \A c \in SolverChains :
             /\ multiProvider.signers[c].kind = "privateKey"
             /\ SubSeq(multiProvider.signers[c].secret, 1, 2) = << "0", "x" >>
      /\ (gmp = "ok" /\ "PRIVATE_KEY" \notin Supplied) =>
           \A c \in SolverChains :
             /\ multiProvider.signers[c].kind = "mnemonic"
             /\ multiProvider.signers[c].path = DefaultPath

\* Both credentials are supplied and the wallet of the private key, given
\* without its prefix, signs for every chain.
C14_Witness ==
    /\ gmp = "ok"
    /\ Supplied = {"PRIVATE_KEY", "MNEMONIC"}
    /\ config.PRIVATE_KEY.chars[1] # "0"
    /\ \A c \in SolverChains : multiProvider.signers[c].kind = "privateKey"

\* ------------------------------------------------ the event listener

\* The number of arguments of IntentCreated in the wire schema.
Arity == 10

\* What a destructured position beyond the end of the array is bound to.
undefined == 0

ArgValues == 1 .. MaxArgValue

\* The argument arrays a subscription may deliver: of the schema's arity, one
\* short and one long.
Events == UNION { [ 1 .. n -> ArgValues ] : n \in (Arity - 1) .. (Arity + 1) }

\* Array destructuring: the i-th name is bound to the i-th element, if any.
Bound(a, i) == IF i <= Len(a) THEN a[i] ELSE undefined

\* EcoListener.parseEventArgs
parseEventArgs(a) ==
    [ _hash |-> Bound(a, 1),
      _creator |-> Bound(a, 2),
      _destinationChain |-> Bound(a, 3),
      _targets |-> Bound(a, 4),
      _data |-> Bound(a, 5),
      _rewardTokens |-> Bound(a, 6),
      _rewardAmounts |-> Bound(a, 7),
      _expiryTime |-> Bound(a, 8),
      nonce |-> Bound(a, 9),
      _prover |-> Bound(a, 10) ]

\* The subscription delivers an event.
Deliver(a) ==
    /\ args = << >>
    /\ args' = a
    /\ intent' = << >>

\* The listener turns the delivered arguments into an intent.
Parse ==
    /\ args # << >>
    /\ intent = << >>
    /\ intent' = << parseEventArgs(args) >>
    /\ UNCHANGED args

\* The intent is handed on and the listener waits for the next event.
HandOn ==
    /\ intent # << >>
    /\ args' = << >>
    /\ intent' = << >>

InitListener ==
    /\ ListenerAtRest
    /\ config = [ PRIVATE_KEY |-> Undefined, MNEMONIC |-> Undefined ]
    /\ chainNext = [ c \in SolverChains |-> 0 ]
    /\ SignerAtRest
    /\ SettlementDeployed
    /\ registry = Domains

Delivery == \E a \in Events : Deliver(a) /\ UNCHANGED << settlement, signer >>
Parsing == Parse /\ UNCHANGED << settlement, signer >>
Handing == HandOn /\ UNCHANGED << settlement, signer >>

NextListener == Delivery \/ Parsing \/ Handing

SpecListener == InitListener /\ [][NextListener]_vars

\* The named fields in the order of the wire schema.
FieldsInOrder(r) ==
    << r._hash, r._creator, r._destinationChain, r._targets, r._data,
       r._rewardTokens, r._rewardAmounts, r._expiryTime, r.nonce, r._prover >>

\* C15: a record is made only of an event with the ten arguments of the wire
\* schema, and each of its named fields is the argument at its position, none
\* swapped, dropped or defaulted; an event of another arity yields no record.
C15_EventNormalisation ==
    intent # << >> =>
      /\ Len(args) = Arity
      /\ FieldsInOrder(intent[1]) = args

====
